---- MODULE Spec2Model ----
(***************************************************************************)
(* NeoMind scripts: the benchmark runner (scripts/comprehensive_test.py)   *)
(* and the seeder (scripts/generate_test_data.py), each a sequential HTTP  *)
(* client.  The server is the environment: every reply it may give is an   *)
(* input of the action that issues the request.                            *)
(*                                                                         *)
(* Spec      the benchmark runner, main() of comprehensive_test.py         *)
(* SeedSpec  the seeder, main() of generate_test_data.py, run MaxRuns      *)
(*           times in sequence against one server                          *)
(***************************************************************************)
EXTENDS Integers, Sequences, FiniteSets, TLC

VARIABLES
    \* ---- benchmark runner ----
    pc,          \* position of main(): switch, session, chat, compare, done, crashed
    mi,          \* index in MODELS of the model under test
    si,          \* index in SCENARIOS of the next scenario of the for loop
    results,     \* the results dict of the running run_model_tests
    files,       \* RESULTS_DIR: per model index, the report file (or NoFile)
    all_results, \* main's list of returned results dicts
    table,       \* the console comparison table rows printed by main
    csv,         \* comparison.csv: NoFile or its rows
    last,        \* the last request issued and what came back
    chatPosts,   \* chat POSTs issued for the scenario handled last
    faults,      \* requests so far whose outcome was not the nominal one
    \* ---- seeder ----
    spc,         \* position of the seeder's main()
    sidx,        \* index of the next record of the running for loop
    run,         \* which execution of the seeder this is
    alerts_created,
    devices_created,
    commands_sent,
    errors,      \* print_error calls of this execution
    sent,        \* requests issued by this execution, in order
    tally,       \* what the server answered to this execution's POSTs, counted
    serverDevices, \* the server's device table (ids)
    sfaults      \* seeder requests so far whose outcome was not nominal

bvars == <<pc, mi, si, results, files, all_results, table, csv, last, chatPosts, faults>>
svars == <<spc, sidx, run, alerts_created, devices_created, commands_sent,
           errors, sent, tally, serverDevices, sfaults>>
vars == <<bvars, svars>>

-----------------------------------------------------------------------------
(* Bounds of the model *)

\* requests of one execution of the benchmark whose outcome may deviate
\* from the nominal one (fast reply, plain text, the expected tools)
MaxFaults == 1

\* the same for the seeder, over all its executions
MaxSeedFaults == 2

\* executions of the seeder in sequence
MaxRuns == 2

-----------------------------------------------------------------------------
(* Program constants *)

\* the timeout passed to send_message, in seconds
CHAT_TIMEOUT_S == 90

\* the threshold of the timeout check, in milliseconds
TIMEOUT_MS == 90000

\* response_text keeps the first 200 characters
TEXT_LIMIT == 200

MODELS == <<"gpt-oss:20b", "qwen3-vl:2b">>

SCENARIOS == <<
    [name |-> "B1",  expected |-> <<"control_device", "list_devices", "list_rules">>, category |-> "routine"],
    [name |-> "B2",  expected |-> <<"list_devices", "query_data", "get_device_metrics">>, category |-> "monitoring"],
    [name |-> "B3",  expected |-> <<"list_rules", "list_devices", "list_device_types">>, category |-> "parallel"],
    [name |-> "B4",  expected |-> <<"get_device_metrics", "create_rule">>, category |-> "automation"],
    [name |-> "B5",  expected |-> <<"enable_rule">>, category |-> "context"],
    [name |-> "B6",  expected |-> <<"batch_control_devices">>, category |-> "control"],
    [name |-> "B7",  expected |-> <<"query_data">>, category |-> "query"],
    [name |-> "B8",  expected |-> <<"set_device_config">>, category |-> "config"],
    [name |-> "B9",  expected |-> <<"query_device_status", "get_device_config", "query_data">>, category |-> "troubleshoot"],
    [name |-> "B10", expected |-> <<"list_devices", "list_rules", "list_device_types", "get_device_metrics">>, category |-> "complex"] >>

NoFile == [exists |-> FALSE, blocks |-> <<>>, summary |-> <<>>]

-----------------------------------------------------------------------------
(* Text: a string is a sequence of characters *)

Min(a, b) == IF a < b THEN a ELSE b

Filler(n) == [i \in 1..n |-> "x"]

\* str.upper(), on the characters the replies use
UpperChar(c) ==
    CASE c = "t" -> "T" [] c = "i" -> "I" [] c = "m" -> "M" [] c = "e" -> "E"
      [] c = "o" -> "O" [] c = "u" -> "U" [] c = "x" -> "X" [] OTHER -> c

Upper(s) == [i \in 1..Len(s) |-> UpperChar(s[i])]

\* the Python operator  p in s  on strings
Contains(s, p) ==
    \E i \in 1..(Len(s) - Len(p) + 1) : SubSeq(s, i, i + Len(p) - 1) = p

\* s[:n]
Prefix(s, n) == SubSeq(s, 1, Min(n, Len(s)))

MARKER_EN == <<"T", "I", "M", "E", "O", "U", "T">>
\* the two characters of the localized word for "timeout"
MARKER_ZH == <<"U+8D85", "U+65F6">>


-----------------------------------------------------------------------------
(* JSON values of a reply body, and the replies of the server *)

Str(s)  == [kind |-> "str", val |-> s]
List(l) == [kind |-> "list", val |-> l]
\* JSON null, None in Python
Null    == [kind |-> "null", val |-> <<>>]
\* the key is not in the object
Absent  == [kind |-> "absent", val |-> <<>>]

T_PLAIN  == Filler(2)
T_UPPER  == MARKER_EN
T_LOWER  == Filler(3) \o <<"t", "i", "m", "e", "o", "u", "t">> \o Filler(2)
T_ZH     == Filler(1) \o MARKER_ZH
\* the marker ends exactly at the limit, starts three characters before
\* it, and starts right after it
T_EDGE   == Filler(TEXT_LIMIT - Len(MARKER_EN)) \o MARKER_EN
T_SPLIT  == Filler(TEXT_LIMIT - 3) \o MARKER_EN
T_LATE   == Filler(TEXT_LIMIT) \o MARKER_ZH

ResponseValues ==
    {Str(T_PLAIN), Str(T_UPPER), Str(T_LOWER), Str(T_ZH), Str(T_EDGE),
     Str(T_SPLIT), Str(T_LATE), Null, Absent}

ToolsValues(scenario) == {List(<<>>), List(scenario.expected), Null, Absent}

\* a reply just under the threshold
FAST_MS == TIMEOUT_MS - 1
ElapsedValues == {FAST_MS, TIMEOUT_MS, TIMEOUT_MS + 1}

\* What may come back from one chat POST: an HTTP reply (whose status the
\* client never reads) with a JSON object as body, a reply whose body is no
\* JSON object, requests.exceptions.Timeout, or
\* requests.exceptions.ConnectionError.
ChatOutcomes(scenario) ==
    [kind : {"reply"}, status : {200, 500}, elapsed : ElapsedValues,
     response : ResponseValues, toolsUsed : ToolsValues(scenario)]
    \cup
    [kind : {"bad_body", "timeout", "connection_error"}, status : {0},
     elapsed : {FAST_MS}, response : {Absent}, toolsUsed : {Absent}]

NominalChat(scenario) ==
    [kind |-> "reply", status |-> 200, elapsed |-> FAST_MS,
     response |-> Str(T_PLAIN), toolsUsed |-> List(scenario.expected)]

\* the body of the reply signals a timeout somewhere in its text
Marked(o) ==
    /\ o.response.kind = "str"
    /\ \/ Contains(Upper(o.response.val), MARKER_EN)
       \/ Contains(o.response.val, MARKER_ZH)

NetworkErrors == {"timeout", "connection_error", "bad_body"}

-----------------------------------------------------------------------------
(* comprehensive_test.py: the functions *)

\* send_message(session_id, message, timeout): the dict it returns, or the
\* exception that leaves it
send_message(o, timeout) ==
    CASE o.kind = "reply" ->
           [raised |-> FALSE, response |-> o.response, toolsUsed |-> o.toolsUsed,
            measuredTimeMs |-> o.elapsed]
      [] o.kind = "timeout" ->
           [raised |-> FALSE, response |-> Str(MARKER_EN), toolsUsed |-> List(<<>>),
            measuredTimeMs |-> timeout * 1000]
      [] OTHER ->
           [raised |-> TRUE, response |-> Absent, toolsUsed |-> Absent,
            measuredTimeMs |-> 0]

\* resp.get(key, default)
Get(v, default) == IF v.kind = "absent" THEN default ELSE v

\* extract_tools_info(resp): len(tools); len(None) raises TypeError
extract_tools_raises(resp) == Get(resp.toolsUsed, List(<<>>)).kind # "list"
extract_tools_info(resp) == Len(Get(resp.toolsUsed, List(<<>>)).val)

\* resp.get("response", "")[:200]; None[:200] raises TypeError
response_text_raises(resp) == Get(resp.response, Str(<<>>)).kind # "str"
response_text(resp) == Prefix(Get(resp.response, Str(<<>>)).val, TEXT_LIMIT)

\* the threshold taken in the wrong unit
is_timeout_unit(duration, text) ==
    \/ duration >= TIMEOUT_MS * 1000
    \/ Contains(Upper(text), MARKER_EN)
    \/ Contains(text, MARKER_ZH)

\* the timeout check of run_model_tests
is_timeout(duration, text) ==
    \/ duration >= TIMEOUT_MS
    \/ Contains(Upper(text), MARKER_EN)
    \/ Contains(text, MARKER_ZH)

\* the three places that compute the success rate
report_rate(r) == IF r.total > 0 THEN (r.passed * 100) \div r.total ELSE 0
table_rate(r)  == IF r.total > 0 THEN (r.passed * 100) \div r.total ELSE 0
\* the division taken before the multiplication
csv_rate_order(r) == IF r.total > 0 THEN (r.passed \div r.total) * 100 ELSE 0
csv_rate(r)    == IF r.total > 0 THEN (r.passed * 100) \div r.total ELSE 0

avg_time(r) == IF r.total > 0 THEN r.total_time \div r.total ELSE 0

\* the results dict run_model_tests starts from
NewResults(model) ==
    [model |-> model, tests |-> <<>>, total |-> 0, passed |-> 0, timeouts |-> 0,
     total_tools |-> 0, total_time |-> 0, parallel_count |-> 0, context_count |-> 0]

NewFile == [exists |-> TRUE, blocks |-> <<>>, summary |-> <<>>]

\* the loop body leaving early on a timeout, before the tool counters
Counted_skip(r, scenario, resp) ==
    LET duration == resp.measuredTimeMs
        tools_count == extract_tools_info(resp)
        timed_out == is_timeout(duration, response_text(resp))
    IN [r EXCEPT
          !.total = @ + 1,
          !.timeouts = IF timed_out THEN @ + 1 ELSE @,
          !.passed = IF timed_out THEN @ ELSE @ + 1,
          !.total_tools = IF timed_out THEN @ ELSE @ + tools_count,
          !.total_time = @ + duration,
          !.parallel_count = IF tools_count >= 2 /\ ~timed_out THEN @ + 1 ELSE @,
          !.context_count =
              IF scenario.category = "context" /\ tools_count > 0 THEN @ + 1 ELSE @,
          !.tests = Append(@, [name |-> scenario.name, category |-> scenario.category,
                               tools_count |-> tools_count, duration |-> duration,
                               timeout |-> timed_out])]

\* results after the body of the for loop has run to its end on resp
Counted(r, scenario, resp) ==
    LET duration == resp.measuredTimeMs
        tools_count == extract_tools_info(resp)
        timed_out == is_timeout(duration, response_text(resp))
    IN [r EXCEPT
          !.total = @ + 1,
          !.timeouts = IF timed_out THEN @ + 1 ELSE @,
          !.passed = IF timed_out THEN @ ELSE @ + 1,
          !.total_tools = @ + tools_count,
          !.total_time = @ + duration,
          !.parallel_count = IF tools_count >= 2 THEN @ + 1 ELSE @,
          !.context_count =
              IF scenario.category = "context" /\ tools_count > 0 THEN @ + 1 ELSE @,
          !.tests = Append(@, [name |-> scenario.name, category |-> scenario.category,
                               tools_count |-> tools_count, duration |-> duration,
                               timeout |-> timed_out])]

\* the block the loop body writes to the report file
Block(scenario, resp) ==
    [name |-> scenario.name,
     result |-> IF is_timeout(resp.measuredTimeMs, response_text(resp))
                THEN "TIMEOUT" ELSE "PASS"]

\* the block as the file holds it when the loop body is left by an exception
CutBlock(scenario) == [name |-> scenario.name, result |-> "none"]


-----------------------------------------------------------------------------
(* comprehensive_test.py: main() and run_model_tests(), step by step *)

SwitchOutcomes == {"ok", "http_error", "timeout", "connection_error"}
SessionOutcomes == {"ok", "http_error", "bad_body", "timeout", "connection_error"}

Request(req, kind, elapsed, marked, shaped) ==
    [req |-> req, kind |-> kind, elapsed |-> elapsed, marked |-> marked,
     shaped |-> shaped]

Fault(nominal) == IF nominal THEN 0 ELSE 1

\* switch_model(model): the PUT is not guarded and its reply is not read
switch_model(o) ==
    /\ pc' = IF o \in {"timeout", "connection_error"} THEN "crashed" ELSE "session"
    /\ last' = Request("switch", o, 0, FALSE, FALSE)
    /\ UNCHANGED <<mi, si, results, files, all_results, table, csv, chatPosts>>

SwitchModel ==
    /\ pc = "switch"
    /\ \E o \in SwitchOutcomes :
         /\ faults + Fault(o = "ok") <= MaxFaults
         /\ faults' = faults + Fault(o = "ok")
         /\ switch_model(o)
    /\ UNCHANGED svars

\* create_session(), then the head of run_model_tests up to the for loop:
\* resp.json()["data"]["sessionId"] needs a JSON body that holds the id
create_session(o) ==
    /\ last' = Request("session", o, 0, FALSE, FALSE)
    /\ IF o = "ok"
       THEN /\ pc' = "chat"
            /\ si' = 1
            /\ results' = NewResults(MODELS[mi])
            /\ files' = [files EXCEPT ![mi] = NewFile]
            /\ chatPosts' = 0
       ELSE /\ pc' = "crashed"
            /\ UNCHANGED <<si, results, files, chatPosts>>
    /\ UNCHANGED <<mi, all_results, table, csv>>

CreateSession ==
    /\ pc = "session"
    /\ \E o \in SessionOutcomes :
         /\ faults + Fault(o = "ok") <= MaxFaults
         /\ faults' = faults + Fault(o = "ok")
         /\ create_session(o)
    /\ UNCHANGED svars

\* one pass of  for scenario in SCENARIOS  on the outcome o of its chat POST
RunScenario(o) ==
    LET scenario == SCENARIOS[si]
        resp == send_message(o, CHAT_TIMEOUT_S)
        raises == resp.raised \/ extract_tools_raises(resp) \/ response_text_raises(resp)
    IN /\ chatPosts' = chatPosts + 1
       /\ last' = Request("chat", o.kind, o.elapsed, Marked(o),
                          o.response.kind = "str" /\ o.toolsUsed.kind = "list")
       /\ IF raises
          THEN /\ results' = [results EXCEPT !.total = @ + 1]
               /\ files' = [files EXCEPT ![mi].blocks = Append(@, CutBlock(scenario))]
               /\ pc' = "crashed"
               /\ si' = si
          ELSE /\ results' = Counted(results, scenario, resp)
               /\ files' = [files EXCEPT ![mi].blocks = Append(@, Block(scenario, resp))]
               /\ pc' = "chat"
               /\ si' = si + 1
       /\ UNCHANGED <<mi, all_results, table, csv>>

Chat ==
    /\ pc = "chat"
    /\ si <= Len(SCENARIOS)
    /\ \E o \in ChatOutcomes(SCENARIOS[si]) :
         /\ faults + Fault(o = NominalChat(SCENARIOS[si])) <= MaxFaults
         /\ faults' = faults + Fault(o = NominalChat(SCENARIOS[si]))
         /\ RunScenario(o)
    /\ UNCHANGED svars

\* the summary block of the report, and the return to main's loop
WriteSummary(r) ==
    [total |-> r.total, passed |-> r.passed, timeouts |-> r.timeouts,
     success_rate |-> report_rate(r), avg_time |-> avg_time(r)]

Summary ==
    /\ pc = "chat"
    /\ si > Len(SCENARIOS)
    /\ files' = [files EXCEPT ![mi].summary = <<WriteSummary(results)>>]
    /\ all_results' = Append(all_results, results)
    /\ IF mi < Len(MODELS)
       THEN pc' = "switch" /\ mi' = mi + 1
       ELSE pc' = "compare" /\ mi' = mi
    /\ UNCHANGED <<si, results, table, csv, last, chatPosts, faults>>
    /\ UNCHANGED svars

\* main() after the loop over the models: the console table and the CSV
TableRow(r) ==
    [model |-> r.model, passed |-> r.passed, total |-> r.total,
     rate |-> table_rate(r), avg_time |-> avg_time(r)]

CsvRow(r) ==
    [model |-> r.model, passed |-> r.passed, total |-> r.total,
     rate |-> csv_rate(r), avg_time |-> avg_time(r), timeouts |-> r.timeouts]

Compare ==
    /\ pc = "compare"
    /\ table' = [i \in 1..Len(all_results) |-> TableRow(all_results[i])]
    /\ csv' = [exists |-> TRUE,
               rows |-> [i \in 1..Len(all_results) |-> CsvRow(all_results[i])]]
    /\ pc' = "done"
    /\ UNCHANGED <<mi, si, results, files, all_results, last, chatPosts, faults>>
    /\ UNCHANGED svars

-----------------------------------------------------------------------------
(* generate_test_data.py: the static records *)

ALERTS_DATA == <<
    [severity |-> "emergency", source |-> "sensor/kitchen"],
    [severity |-> "emergency", source |-> "sensor/basement"],
    [severity |-> "emergency", source |-> "sensor/gas"],
    [severity |-> "critical", source |-> "sensor/fridge"],
    [severity |-> "critical", source |-> "lock/front"],
    [severity |-> "critical", source |-> "network/monitor"],
    [severity |-> "critical", source |-> "lock/front"],
    [severity |-> "warning", source |-> "sensor/living"],
    [severity |-> "warning", source |-> "sensor/bedroom"],
    [severity |-> "warning", source |-> "device_monitor"],
    [severity |-> "warning", source |-> "system/monitor"],
    [severity |-> "warning", source |-> "power/monitor"],
    [severity |-> "info", source |-> "system"],
    [severity |-> "info", source |-> "update_manager"],
    [severity |-> "info", source |-> "scheduler"],
    [severity |-> "info", source |-> "discovery"],
    [severity |-> "info", source |-> "automation"] >>

DEVICES_DATA == <<
    [id |-> "light/living", type |-> "light"],
    [id |-> "light/bedroom", type |-> "light"],
    [id |-> "light/kitchen", type |-> "light"],
    [id |-> "switch/fan", type |-> "switch"],
    [id |-> "switch/ac", type |-> "hvac"],
    [id |-> "sensor/temp", type |-> "sensor"],
    [id |-> "sensor/door", type |-> "sensor"],
    [id |-> "sensor/motion", type |-> "sensor"],
    [id |-> "lock/front", type |-> "lock"],
    [id |-> "curtain/living", type |-> "curtain"] >>

\* the commands list of main
COMMANDS == <<
    [device_id |-> "light/living", cmd |-> "on"],
    [device_id |-> "light/living", cmd |-> "off"],
    [device_id |-> "light/bedroom", cmd |-> "on"],
    [device_id |-> "switch/fan", cmd |-> "set_speed"],
    [device_id |-> "curtain/living", cmd |-> "open"] >>

\* the temperatures of the samples, in tenths of a degree
TELEMETRY_SAMPLES == <<255, 262, 248, 271, 235>>

-----------------------------------------------------------------------------
(* generate_test_data.py: the functions; each takes what came back from
   its request *)

\* an alert or command POST: HTTP 200 with a JSON body that is truthy,
\* HTTP 200 with a JSON body that is falsy ({}, [], null), HTTP 200 with a
\* body that is no JSON, another status, or an exception of requests
PostOutcomes == {"ok", "ok_empty", "ok_bad_body", "http_error", "exception"}

Answered200(o) == o \in {"ok", "ok_empty", "ok_bad_body"}

\* create_alert: what it returns, and whether it calls print_error
create_alert(o) ==
    CASE o = "ok" -> [result |-> "truthy", printed |-> 0]
      [] o = "ok_empty" -> [result |-> "falsy", printed |-> 0]
      [] OTHER -> [result |-> "None", printed |-> 1]

\* if result:
Truthy(result) == result = "truthy"

\* a device POST: the server answers from its device table, answers 500,
\* the request fails before it reaches the server, or the server handles
\* it and the answer is lost
DeviceOutcomes == {"answered", "http_error", "exception", "lost_reply"}

\* the idempotent endpoint: 200 for a new id, 409 for a known one
ServerStatus(id) == IF id \in serverDevices THEN 409 ELSE 200

\* create_device accepting 200 only
create_device_200(status) == status = 200

\* create_device: response.status_code in [200, 409]; 0 stands for the
\* exception, where it returns False
create_device(status) == status \in {200, 409}

\* send_command: the JSON body on 200, None otherwise; nothing is printed
send_command(o) ==
    CASE o = "ok" -> "truthy"
      [] o = "ok_empty" -> "falsy"
      [] OTHER -> "None"

\* a telemetry POST, whose reply send_telemetry never reads
TelemetryOutcomes == {"ok", "http_error", "exception"}

\* a GET of main: 200 with the JSON object, another status, or an
\* exception (of requests, or of reading the body)
GetOutcomes == {"ok", "http_error", "exception"}

\* failed: POSTs that did not succeed; silent: those of them for which
\* print_error was not called; health: what the health check got
NoTally ==
    [alert200 |-> 0, dev200 |-> 0, dev409 |-> 0, failed |-> 0, silent |-> 0,
     health |-> "none"]

Post(kind, rec) == [method |-> "POST", kind |-> kind, rec |-> rec]
GetReq(kind) == [method |-> "GET", kind |-> kind, rec |-> 0]

-----------------------------------------------------------------------------
(* generate_test_data.py: main(), step by step *)

SeedBudget(nominal) ==
    /\ sfaults + Fault(nominal) <= MaxSeedFaults
    /\ sfaults' = sfaults + Fault(nominal)

\* the health check with the return after print_error left out
Health_noreturn ==
    /\ spc = "health"
    /\ \E o \in GetOutcomes :
         /\ SeedBudget(o = "ok")
         /\ sent' = Append(sent, GetReq("health"))
         /\ tally' = [tally EXCEPT !.health = o]
         /\ spc' = "alerts"
         /\ errors' = IF o = "ok" THEN errors ELSE errors + 1
    /\ UNCHANGED <<sidx, run, alerts_created, devices_created, commands_sent,
                   serverDevices>>
    /\ UNCHANGED bvars

\* the health check: anything but a 200 prints an error and returns
Health ==
    /\ spc = "health"
    /\ \E o \in GetOutcomes :
         /\ SeedBudget(o = "ok")
         /\ sent' = Append(sent, GetReq("health"))
         /\ tally' = [tally EXCEPT !.health = o]
         /\ IF o = "ok"
            THEN spc' = "alerts" /\ errors' = errors
            ELSE spc' = "end" /\ errors' = errors + 1
    /\ UNCHANGED <<sidx, run, alerts_created, devices_created, commands_sent,
                   serverDevices>>
    /\ UNCHANGED bvars

\* one pass of  for alert_data in ALERTS_DATA
SeedAlert ==
    /\ spc = "alerts"
    /\ \E o \in PostOutcomes :
         LET r == create_alert(o) IN
         /\ SeedBudget(o = "ok")
         /\ sent' = Append(sent, Post("alert", sidx))
         /\ alerts_created' = IF Truthy(r.result) THEN alerts_created + 1
                              ELSE alerts_created
         /\ errors' = errors + r.printed
         /\ tally' = [tally EXCEPT
                        !.alert200 = IF Answered200(o) THEN @ + 1 ELSE @,
                        !.failed = IF Answered200(o) THEN @ ELSE @ + 1,
                        !.silent = IF Answered200(o) THEN @ ELSE @ + 1 - r.printed]
    /\ IF sidx < Len(ALERTS_DATA)
       THEN sidx' = sidx + 1 /\ spc' = spc
       ELSE sidx' = 1 /\ spc' = "devices"
    /\ UNCHANGED <<run, devices_created, commands_sent, serverDevices>>
    /\ UNCHANGED bvars

\* one pass of  for device in DEVICES_DATA
SeedDevice ==
    /\ spc = "devices"
    /\ \E o \in DeviceOutcomes :
         LET id == DEVICES_DATA[sidx].id
             status == CASE o \in {"answered"} -> ServerStatus(id)
                         [] o = "http_error" -> 500
                         [] OTHER -> 0
         IN
         /\ SeedBudget(o = "answered")
         /\ sent' = Append(sent, Post("device", sidx))
         /\ serverDevices' = IF o \in {"answered", "lost_reply"}
                             THEN serverDevices \cup {id} ELSE serverDevices
         /\ devices_created' = IF create_device(status) THEN devices_created + 1
                               ELSE devices_created
         /\ tally' = [tally EXCEPT
                        !.dev200 = IF status = 200 THEN @ + 1 ELSE @,
                        !.dev409 = IF status = 409 THEN @ + 1 ELSE @,
                        !.failed = IF status \in {200, 409} THEN @ ELSE @ + 1,
                        !.silent = IF status \in {200, 409} THEN @ ELSE @ + 1]
    /\ IF sidx < Len(DEVICES_DATA)
       THEN sidx' = sidx + 1 /\ spc' = spc
       ELSE sidx' = 1 /\ spc' = "commands"
    /\ UNCHANGED <<run, alerts_created, commands_sent, errors>>
    /\ UNCHANGED bvars

\* one pass of  for device_id, cmd, params in commands
SeedCommand ==
    /\ spc = "commands"
    /\ \E o \in PostOutcomes :
         /\ SeedBudget(o = "ok")
         /\ sent' = Append(sent, Post("command", sidx))
         /\ commands_sent' = IF Truthy(send_command(o)) THEN commands_sent + 1
                             ELSE commands_sent
         /\ tally' = [tally EXCEPT
                        !.failed = IF Answered200(o) THEN @ ELSE @ + 1,
                        !.silent = IF Answered200(o) THEN @ ELSE @ + 1]
    /\ IF sidx < Len(COMMANDS)
       THEN sidx' = sidx + 1 /\ spc' = spc
       ELSE sidx' = 1 /\ spc' = "telemetry"
    /\ UNCHANGED <<run, alerts_created, devices_created, errors, serverDevices>>
    /\ UNCHANGED bvars

\* one pass of  for i, data in enumerate(TELEMETRY_SAMPLES): the sample
\* for sensor/temp, then a door state for sensor/door
SeedTelemetry ==
    /\ spc = "telemetry"
    /\ \E o1 \in TelemetryOutcomes, o2 \in TelemetryOutcomes :
         /\ sfaults + Fault(o1 = "ok") + Fault(o2 = "ok") <= MaxSeedFaults
         /\ sfaults' = sfaults + Fault(o1 = "ok") + Fault(o2 = "ok")
         /\ sent' = sent \o <<Post("telemetry", sidx), Post("telemetry_door", sidx)>>
         /\ tally' = [tally EXCEPT
                        !.failed = @ + Fault(o1 = "ok") + Fault(o2 = "ok"),
                        !.silent = @ + Fault(o1 = "ok") + Fault(o2 = "ok")]
    /\ IF sidx < Len(TELEMETRY_SAMPLES)
       THEN sidx' = sidx + 1 /\ spc' = spc
       ELSE sidx' = 1 /\ spc' = "stats_alerts"
    /\ UNCHANGED <<run, alerts_created, devices_created, commands_sent, errors,
                   serverDevices>>
    /\ UNCHANGED bvars

\* the statistics: GET alerts, then GET devices, in one try block
StatsAlerts ==
    /\ spc = "stats_alerts"
    /\ \E o \in GetOutcomes :
         /\ SeedBudget(o = "ok")
         /\ sent' = Append(sent, GetReq("alerts"))
         /\ IF o = "exception"
            THEN spc' = "end" /\ errors' = errors + 1
            ELSE spc' = "stats_devices" /\ errors' = errors
    /\ UNCHANGED <<sidx, run, alerts_created, devices_created, commands_sent,
                   tally, serverDevices>>
    /\ UNCHANGED bvars

StatsDevices ==
    /\ spc = "stats_devices"
    /\ \E o \in GetOutcomes :
         /\ SeedBudget(o = "ok")
         /\ sent' = Append(sent, GetReq("devices"))
         /\ errors' = IF o = "exception" THEN errors + 1 ELSE errors
         /\ spc' = "end"
    /\ UNCHANGED <<sidx, run, alerts_created, devices_created, commands_sent,
                   tally, serverDevices>>
    /\ UNCHANGED bvars

\* the script is started again
Rerun ==
    /\ spc = "end"
    /\ run < MaxRuns
    /\ run' = run + 1
    /\ spc' = "health"
    /\ sidx' = 1
    /\ alerts_created' = 0
    /\ devices_created' = 0
    /\ commands_sent' = 0
    /\ errors' = 0
    /\ sent' = <<>>
    /\ tally' = NoTally
    /\ UNCHANGED <<serverDevices, sfaults>>
    /\ UNCHANGED bvars

-----------------------------------------------------------------------------

BenchInit ==
    /\ pc = "switch"
    /\ mi = 1
    /\ si = 1
    /\ results = NewResults(MODELS[1])
    /\ files = [m \in 1..Len(MODELS) |-> NoFile]
    /\ all_results = <<>>
    /\ table = <<>>
    /\ csv = [exists |-> FALSE, rows |-> <<>>]
    /\ last = Request("none", "none", 0, FALSE, FALSE)
    /\ chatPosts = 0
    /\ faults = 0

SeedInit ==
    /\ spc = "health"
    /\ sidx = 1
    /\ run = 1
    /\ alerts_created = 0
    /\ devices_created = 0
    /\ commands_sent = 0
    /\ errors = 0
    /\ sent = <<>>
    /\ tally = NoTally
    /\ serverDevices = {}
    /\ sfaults = 0

Init == BenchInit /\ SeedInit

Next == SwitchModel \/ CreateSession \/ Chat \/ Summary \/ Compare

Spec == Init /\ [][Next]_vars

SeedNext ==
    \/ Health \/ SeedAlert \/ SeedDevice \/ SeedCommand \/ SeedTelemetry
    \/ StatsAlerts \/ StatsDevices \/ Rerun

SeedSpec == Init /\ [][SeedNext]_vars


-----------------------------------------------------------------------------
(* Properties of the benchmark runner *)

\* the results dict of model m: returned to main, or still run_model_tests's
ResultsOf(m) == IF m <= Len(all_results) THEN all_results[m] ELSE results

\* run_model_tests(m) is over: it returned, or an exception left its loop
RunOver(m) ==
    \/ m <= Len(all_results)
    \/ m = mi /\ pc = "crashed" /\ last.req = "chat"

\* an iteration of the scenario loop has just run to its end
IterationDone == last.req = "chat" /\ pc # "crashed"

LastTest == results.tests[Len(results.tests)]
LastBlock == files[mi].blocks[Len(files[mi].blocks)]

RECURSIVE SumTools(_)
SumTools(tests) ==
    IF tests = <<>> THEN 0 ELSE tests[1].tools_count + SumTools(Tail(tests))

CountTimeout(tests, flag) ==
    Cardinality({i \in 1..Len(tests) : tests[i].timeout = flag})

\* C1: for every model and every combination of chat-request outcomes, a
\* run of run_model_tests that is over has appended exactly one TestResult
\* per scenario, in scenario order, its report file holds exactly one TEST
\* block per scenario, and the summary's Total Tests is the number of
\* scenarios (10).
C1_OneResultPerScenario ==
    \A m \in 1..Len(MODELS) :
        RunOver(m) =>
            /\ Len(ResultsOf(m).tests) = Len(SCENARIOS)
            /\ \A i \in 1..Len(ResultsOf(m).tests) :
                   ResultsOf(m).tests[i].name = SCENARIOS[i].name
            /\ Len(files[m].blocks) = Len(SCENARIOS)
            /\ \A i \in 1..Len(files[m].blocks) :
                   /\ files[m].blocks[i].name = SCENARIOS[i].name
                   /\ files[m].blocks[i].result \in {"PASS", "TIMEOUT"}
            /\ files[m].summary # <<>>
            /\ files[m].summary[1].total = 10

\* C2: a chat reply whose measured duration exceeds 90000 ms, whatever its
\* response text and its tool list, is recorded with timeout = TRUE and as
\* TIMEOUT in the report, increments timeouts and leaves passed alone.
C2_SlowIsTimeout ==
    [][ ( /\ chatPosts' = chatPosts + 1
          /\ last'.kind = "reply"
          /\ last'.shaped
          /\ last'.elapsed > TIMEOUT_MS )
        => ( /\ pc' = "chat"
             /\ Len(results'.tests) = Len(results.tests) + 1
             /\ results'.tests[Len(results'.tests)].timeout
             /\ results'.tests[Len(results'.tests)].duration = last'.elapsed
             /\ files'[mi].blocks[Len(files'[mi].blocks)].result = "TIMEOUT"
             /\ results'.timeouts = results.timeouts + 1
             /\ results'.passed = results.passed ) ]_vars

\* a slow reply with a plain text and a tool list has been handled
C2_Witness ==
    /\ IterationDone
    /\ last.kind = "reply" /\ last.shaped /\ ~last.marked
    /\ last.elapsed > TIMEOUT_MS
    /\ LastTest.tools_count > 0

\* C3: every network error of a chat request (request timeout, connection
\* failure, unparsable response) is caught in send_message and becomes a
\* degraded result counted in the timeout bucket, after a single attempt,
\* and the run goes on with the next scenario.
C3_NetworkErrorsCaught ==
    (last.req = "chat" /\ last.kind \in NetworkErrors) =>
        /\ pc = "chat"
        /\ chatPosts = results.total
        /\ Len(results.tests) = results.total
        /\ LastTest.timeout
        /\ results.timeouts >= 1

\* C4: nothing is fatal: whatever the outcome of each request, when main is
\* over it ended normally, with one report file per model and the CSV with
\* one row per model.
C4_NothingFatal ==
    pc \in {"done", "crashed"} =>
        /\ pc = "done"
        /\ \A m \in 1..Len(MODELS) : files[m].exists /\ files[m].summary # <<>>
        /\ csv.exists
        /\ Len(csv.rows) = Len(MODELS)

\* C5: for every model run with a nonzero total, the success rate in the
\* report file, in the console table and in the CSV row is
\* (passed * 100) \div total of the model's final counters.
C5_RatesAgree ==
    \A m \in 1..Len(all_results) :
        LET r == all_results[m]
            rate == (r.passed * 100) \div r.total
        IN r.total > 0 =>
            /\ files[m].summary # <<>>
            /\ files[m].summary[1].success_rate = rate
            /\ pc = "done" =>
                 /\ table[m].model = r.model /\ table[m].rate = rate
                 /\ csv.rows[m].model = r.model /\ csv.rows[m].rate = rate
                 /\ table[m].rate = files[m].summary[1].success_rate

\* all three outputs are written, one model with a rate that is neither 0
\* nor 100
C5_Witness ==
    /\ pc = "done"
    /\ \E m \in 1..Len(all_results) :
         /\ all_results[m].total > 0
         /\ csv.rows[m].rate \notin {0, 100}
         /\ csv.rows[m].rate = files[m].summary[1].success_rate

\* C9: a chat reply is classified as a timeout if and only if its elapsed
\* time is >= 90000 ms or its body text contains the marker, at any
\* position; and no body makes the classification fail.
C9_TimeoutIffSignalled ==
    (last.req = "chat" /\ last.kind = "reply") =>
        /\ pc = "chat"
        /\ LastTest.timeout <=> (last.elapsed >= TIMEOUT_MS \/ last.marked)

\* C10: after every completed iteration the counters of results are the
\* fold of its TestResults.
CountersFold(r) ==
    /\ r.total = Len(r.tests)
    /\ r.total = r.passed + r.timeouts
    /\ r.timeouts = CountTimeout(r.tests, TRUE)
    /\ r.passed = CountTimeout(r.tests, FALSE)
    /\ r.total_tools = SumTools(r.tests)
    /\ r.parallel_count <= r.total
    /\ r.context_count <=
         Cardinality({i \in 1..Len(SCENARIOS) : SCENARIOS[i].category = "context"})

C10_CountersFold ==
    /\ \A m \in 1..Len(all_results) : CountersFold(all_results[m])
    /\ ~(pc = "crashed" /\ last.req = "chat") => CountersFold(results)

\* a run with a timeout that used tools, a pass, and the context scenario
\* counted
C10_Witness ==
    /\ IterationDone
    /\ results.timeouts > 0 /\ results.passed > 0
    /\ results.context_count > 0
    /\ \E i \in 1..Len(results.tests) :
         results.tests[i].timeout /\ results.tests[i].tools_count >= 2


-----------------------------------------------------------------------------
(* Properties of the seeder *)

Seeding == {"alerts", "devices", "commands", "telemetry"}

\* records of a kind whose pass of the loop is over
Processed(kind, n) ==
    LET order == <<"alerts", "devices", "commands", "telemetry", "stats_alerts">>
        at(p) == CHOOSE k \in 1..Len(order) : order[k] = p
    IN IF spc = kind THEN sidx - 1
       ELSE IF at(spc) > at(kind) THEN n ELSE 0

PostsOf(kind, i) ==
    Cardinality({j \in 1..Len(sent) : sent[j] = Post(kind, i)})

\* C6: every alert POST the server answers with HTTP 200, whatever the
\* body of that answer, increments alerts_created: the count reported is
\* the number of alert POSTs answered with 200.
C6_Accepted200Counted == alerts_created = tally.alert200

\* C7: for each static record exactly one POST is issued, every outcome
\* other than success prints an error, and the seeder goes on with the
\* next record.
C7_EachFailurePrinted ==
    spc \in Seeding \cup {"stats_alerts"} =>
        /\ \A i \in 1..Processed("alerts", Len(ALERTS_DATA)) : PostsOf("alert", i) = 1
        /\ \A i \in 1..Processed("devices", Len(DEVICES_DATA)) : PostsOf("device", i) = 1
        /\ \A i \in 1..Processed("commands", Len(COMMANDS)) : PostsOf("command", i) = 1
        /\ \A i \in 1..Processed("telemetry", Len(TELEMETRY_SAMPLES)) :
               PostsOf("telemetry", i) = 1
        /\ tally.silent = 0
        /\ errors >= tally.failed

DeviceIds == {DEVICES_DATA[i].id : i \in 1..Len(DEVICES_DATA)}

\* C8: against the idempotent device endpoint, however often the seeder is
\* run, the server holds at most the 10 distinct ids of DEVICES_DATA, every
\* 200 and every 409 answer is counted in devices_created, and a second run
\* whose device POSTs are all answered reports devices_created = 10.
C8_IdempotentRerun ==
    /\ Cardinality(serverDevices) <= 10
    /\ Cardinality(serverDevices) <= Cardinality(DeviceIds)
    /\ devices_created = tally.dev200 + tally.dev409
    /\ ( /\ run >= 2
         /\ spc \in {"commands", "telemetry", "stats_alerts", "stats_devices"}
         /\ tally.dev200 + tally.dev409 = Len(DEVICES_DATA) )
       => devices_created = 10

\* a second run in which the server answered 409 to all ten devices
C8_Witness ==
    /\ run = 2
    /\ spc = "commands"
    /\ tally.dev409 = Len(DEVICES_DATA)
    /\ devices_created = 10
    /\ Cardinality(serverDevices) = 10


\* the place of a request in the order main issues them
Rank(q) ==
    CASE q = GetReq("health") -> 0
      [] q.method = "POST" /\ q.kind = "alert" -> 1
      [] q.method = "POST" /\ q.kind = "device" -> 2
      [] q.method = "POST" /\ q.kind = "command" -> 3
      [] q.method = "POST" /\ q.kind \in {"telemetry", "telemetry_door"} -> 4
      [] q = GetReq("alerts") -> 5
      [] q = GetReq("devices") -> 6
      [] OTHER -> 7

\* C11: no seeding POST and no statistics GET is issued unless the initial
\* GET /api/health returned 200: after another answer or an exception main
\* has returned with nothing else sent.  After a 200, the alert POSTs come
\* before the device POSTs, these before the command POSTs, these before
\* the telemetry POSTs, these before the GET of the alerts, and that
\* before the GET of the devices.
C11_HealthGateAndOrder ==
    /\ sent # <<>> => sent[1] = GetReq("health") /\ tally.health # "none"
    /\ \A j \in 1..Len(sent) :
           /\ Rank(sent[j]) <= 6
           /\ j > 1 => Rank(sent[j]) >= 1 /\ tally.health = "ok"
    /\ tally.health \in {"http_error", "exception"} =>
           sent = <<GetReq("health")>> /\ spc = "end"
    /\ \A j, k \in 1..Len(sent) : j < k => Rank(sent[j]) <= Rank(sent[k])
    /\ \A j, k \in 1..Len(sent) :
           (j < k /\ sent[j].method = "GET" /\ sent[k].method = "GET")
               => Rank(sent[j]) < Rank(sent[k])

\* a whole execution after a healthy answer: every record posted, then
\* both statistics fetched
C11_Witness ==
    /\ spc = "end"
    /\ tally.health = "ok"
    /\ Len(sent) = 1 + Len(ALERTS_DATA) + Len(DEVICES_DATA) + Len(COMMANDS)
                     + 2 * Len(TELEMETRY_SAMPLES) + 2
    /\ sent[Len(sent)] = GetReq("devices")
    /\ sent[Len(sent) - 1] = GetReq("alerts")

====
